---- MODULE Spec2Model ----
(***************************************************************************)
(* Bucketed global deduplication of the GOLD parquet                       *)
(* (src/src/gold/dedup_gold_global_by_bucket.py).                          *)
(*                                                                         *)
(* A table is a sequence of rows; a row is a record with the two key       *)
(* columns station_id, time_hour and one non-key int64 column val.  A      *)
(* nullable cell is a set: {} is null and {x} is the value x, so that      *)
(* arrow's null propagation (mod, equal, filter) is computed and not       *)
(* assumed.  A schema is a sequence of <<name, type>> pairs.               *)
(* A directory is a function from the bucket indices whose file exists to  *)
(* the table stored in that file.                                          *)
(*                                                                         *)
(* main() is run any number of times on the same IN_FILE with the same     *)
(* N_BUCKETS (a module constant).  Before the first run BUCKET_DIR is      *)
(* empty or holds the bucket files of an earlier run on another input.     *)
(* Every step of main() that does I/O may raise; clean_bucket_dir          *)
(* swallows the error of each unlink, so any subset of the old bucket      *)
(* files may survive it.  An exception ends the run (pc = "failed") at a   *)
(* row-group, bucket-file or part boundary.                                *)
(*                                                                         *)
(* The per-part script (src/src/gold/dedup_gold_by_parts.py), whose        *)
(* normalizer fixes the target schema, is modelled by SpecParts; each of   *)
(* the two specifications leaves the other script idle.                    *)
(***************************************************************************)
EXTENDS Integers, Sequences, FiniteSets, TLC

(* ---------------- bounds of the model ---------------- *)
MaxRowGroups == 2
MaxRows == 2
MaxTotalRows == 3
MaxStaleRows == 1
MaxKeylessRows == 1
MaxParts == 2
MaxPartRows == 2

(* ---------------- input universe ---------------- *)
\* values of N_BUCKETS the model is run with (the source sets 64)
NChoices == {1, 2, 101}

Null == {}
Some(x) == {x}
ValueOf(c) == CHOOSE x \in c : TRUE

Stations == {Null, Some(-1), Some(11), Some(100)}

Row(s, t, v) == [station_id |-> s, time_hour |-> t, val |-> v]

\* rows the input file may hold: a key with two different non-key values,
\* an earlier hour of the same station with and without a non-key value, a
\* second station, a negative and a null station_id
Rows ==
    { Row(Some(11), 2, Some(1)), Row(Some(11), 2, Some(2)),
      Row(Some(11), 1, Some(1)), Row(Some(11), 1, Null),
      Row(Some(100), 1, Some(1)), Row(Some(-1), 1, Some(1)),
      Row(Null, 1, Some(1)) }

RECURSIVE SeqsUpTo(_, _)
SeqsUpTo(S, n) ==
    IF n = 0 THEN { <<>> }
    ELSE LET shorter == SeqsUpTo(S, n - 1)
         IN  shorter \cup { Append(q, x) : q \in { p \in shorter : Len(p) = n - 1 }, x \in S }

RECURSIVE Flatten(_)
Flatten(groups) ==
    IF groups = <<>> THEN <<>> ELSE Head(groups) \o Flatten(Tail(groups))

RECURSIVE SumSeq(_)
SumSeq(q) == IF q = <<>> THEN 0 ELSE Head(q) + SumSeq(Tail(q))

\* the row-group sizes a file may have: at most MaxRowGroups groups of 1 to
\* MaxRows rows
GroupSizes == SeqsUpTo(1..MaxRows, MaxRowGroups)

RECURSIVE SplitBy(_, _)
SplitBy(flat, sizes) ==
    IF sizes = <<>> THEN <<>>
    ELSE << SubSeq(flat, 1, Head(sizes)) >>
             \o SplitBy(SubSeq(flat, Head(sizes) + 1, Len(flat)), Tail(sizes))

\* contents of IN_FILE: a sequence of row groups holding at most MaxTotalRows
\* rows in all
Inputs ==
    UNION { { SplitBy(flat, sizes) :
                  sizes \in { g \in GroupSizes : SumSeq(g) = Len(flat) } } :
            flat \in SeqsUpTo(Rows, MaxTotalRows) }

\* pf.schema_arrow of an IN_FILE that has the key columns
FullSchema ==
    << << "station_id", "int64" >>, << "time_hour", "timestamp" >>,
       << "val", "int64" >> >>

\* pf.schema_arrow of an IN_FILE that lacks the key columns
KeylessSchema == << << "val", "int64" >> >>

ColumnNames(schema) == { schema[i][1] : i \in 1..Len(schema) }

\* contents of an IN_FILE without key columns: the rows hold val alone
KeylessInputs ==
    { [ g \in 1..Len(f) |-> [ i \in 1..Len(f[g]) |-> [ val |-> f[g][i].val ] ] ] :
          f \in { h \in Inputs : Len(Flatten(h)) <= MaxKeylessRows } }

(* ---------------- KEYS, line 62 ---------------- *)
KEYS == << "station_id", "time_hour" >>

KeyOf(r) == [ i \in 1..Len(KEYS) |-> r[KEYS[i]] ]

KeysOf(table) == { KeyOf(table[i]) : i \in 1..Len(table) }

(* ---------------- file names and glob ---------------- *)
RECURSIVE Digits(_)
Digits(n) == IF n < 10 THEN << n >> ELSE Append(Digits(n \div 10), n % 10)

\* f"{b:02d}" followed by the "." of ".parquet" (code point below every digit)
Dot == -1
BucketName(b) ==
    (IF b < 10 THEN << 0, b >> ELSE Digits(b)) \o << Dot >>

\* paths below ROOT, as their sequences of components; a file name made by
\* an f-string is the sequence of its pieces
IN_FILE == << "data", "gold", "bicing_gold_dedup.parquet" >>
BUCKET_DIR == << "data", "gold", "buckets_tmp" >>

\* an output path that is the path of the input
OUT_FILE_in_place == << "data", "gold", "bicing_gold_dedup.parquet" >>

OUT_FILE == << "data", "gold", "bicing_gold_dedup_global.parquet" >>

\* BUCKET_DIR / f"bucket_{b:02d}.parquet"
bucket_path(b) == BUCKET_DIR \o << "bucket_", BucketName(b), "parquet" >>

\* BUCKET_DIR / f"dedup_{bfile.name}"
dedup_path(b) == BUCKET_DIR \o << "dedup_", "bucket_", BucketName(b), "parquet" >>

\* the paths of the per-part script
PARTS_DIR == << "data", "gold", "parts" >>
DEDUP_DIR == << "data", "gold", "parts_dedup" >>
OUT_GOLD == << "data", "gold", "bicing_gold_dedup.parquet" >>

\* the row groups of IN_FILE after `table` was written at `path`: a writer
\* opened on a path truncates the file that is there
WrittenAt(path, table, groups) ==
    IF path = IN_FILE THEN << table >> ELSE groups

\* the row groups of IN_FILE after the files at `paths` were unlinked
UnlinkedAt(paths, groups) ==
    IF IN_FILE \in paths THEN <<>> ELSE groups

RECURSIVE StrLess(_, _)
StrLess(a, b) ==
    IF b = <<>> THEN FALSE
    ELSE IF a = <<>> THEN TRUE
    ELSE IF Head(a) /= Head(b) THEN Head(a) < Head(b)
    ELSE StrLess(Tail(a), Tail(b))

\* sorted(BUCKET_DIR.glob("bucket_*.parquet")): the existing bucket files in
\* ascending order of their names
RECURSIVE SortedByName(_)
SortedByName(S) ==
    IF S = {} THEN <<>>
    ELSE LET least == CHOOSE b \in S :
                          \A c \in S \ {b} : StrLess(BucketName(b), BucketName(c))
         IN  << least >> \o SortedByName(S \ {least})

SortedGlob(dir) == SortedByName(DOMAIN dir)

(* ---------------- bucket_id_from_station_id ---------------- *)
FlooredMod(x, n) == x % n
TruncatedMod(x, n) == IF x >= 0 THEN x % n ELSE -((-x) % n)

\* pc.mod on one cell: null stays null; the sign convention of the kernel for
\* a negative dividend is not fixed by the source, both are modelled
ModCell(c, n, kind) ==
    { (IF kind = "floored" THEN FlooredMod(x, n) ELSE TruncatedMod(x, n)) : x \in c }

\* a bucket id taken from the row's position in the row group, not from the
\* value of station_id
bucket_id_from_row_position(arr_station, n, kind) ==
    [ i \in 1..Len(arr_station) |-> { FlooredMod(i - 1, n) } ]

bucket_id_from_station_id(arr_station, n, kind) ==
    [ i \in 1..Len(arr_station) |-> ModCell(arr_station[i], n, kind) ]

StationColumn(table) == [ i \in 1..Len(table) |-> table[i].station_id ]

\* pc.equal(b_ids, b): null where the bucket id is null
EqualMask(ids, b) == [ i \in 1..Len(ids) |-> { y = b : y \in ids[i] } ]

\* pc.any(mask).as_py() is True
AnyTrue(mask) == \E i \in 1..Len(mask) : mask[i] = { TRUE }

\* table.filter(mask): the rows whose mask cell is true, in the table's order;
\* rows whose mask cell is false or null are dropped
RECURSIVE FilterFrom(_, _, _)
FilterFrom(table, mask, i) ==
    IF i > Len(table) THEN <<>>
    ELSE (IF mask[i] = { TRUE } THEN << table[i] >> ELSE <<>>)
             \o FilterFrom(table, mask, i + 1)

Filter(table, mask) == FilterFrom(table, mask, 1)

(* ---------------- dedup_bucket_file ---------------- *)
\* order of pandas sort_values on one nullable column: values ascending, nulls last
CellLess(a, b) ==
    IF a = Null THEN FALSE
    ELSE IF b = Null THEN TRUE
    ELSE ValueOf(a) < ValueOf(b)

KeyLess(r1, r2) ==
    \/ CellLess(r1.station_id, r2.station_id)
    \/ /\ r1.station_id = r2.station_id
       /\ r1.time_hour < r2.time_hour

\* insertion of r behind every row that does not sort after it
RECURSIVE InsertStable(_, _)
InsertStable(sorted, r) ==
    IF sorted = <<>> THEN << r >>
    ELSE IF KeyLess(r, Head(sorted)) THEN << r >> \o sorted
    ELSE << Head(sorted) >> \o InsertStable(Tail(sorted), r)

\* insertion of r in front of every row that does not sort before it
RECURSIVE InsertTiesReversed(_, _)
InsertTiesReversed(sorted, r) ==
    IF sorted = <<>> THEN << r >>
    ELSE IF ~KeyLess(Head(sorted), r) THEN << r >> \o sorted
    ELSE << Head(sorted) >> \o InsertTiesReversed(Tail(sorted), r)

RECURSIVE SortTiesReversedFrom(_, _, _)
SortTiesReversedFrom(table, acc, i) ==
    IF i > Len(table) THEN acc
    ELSE SortTiesReversedFrom(table, InsertTiesReversed(acc, table[i]), i + 1)

\* a sort by the key columns that is not stable: rows of equal key come out in
\* the reverse of their order in the table
sort_values_ties_reversed(table) == SortTiesReversedFrom(table, <<>>, 1)

RECURSIVE SortFrom(_, _, _)
SortFrom(table, acc, i) ==
    IF i > Len(table) THEN acc
    ELSE SortFrom(table, InsertStable(acc, table[i]), i + 1)

\* df.sort_values(KEYS, kind="mergesort"): a stable sort by the key columns
sort_values(table) == SortFrom(table, <<>>, 1)

\* df.drop_duplicates(subset=KEYS, keep="first")
RECURSIVE DropFrom(_, _)
DropFrom(table, i) ==
    IF i > Len(table) THEN <<>>
    ELSE (IF \E j \in 1..(i - 1) : KeyOf(table[j]) = KeyOf(table[i])
          THEN <<>> ELSE << table[i] >>)
             \o DropFrom(table, i + 1)

\* drop_duplicates without subset=KEYS: only rows equal in every column count
\* as duplicates
RECURSIVE DropEqualRowsFrom(_, _)
DropEqualRowsFrom(table, i) ==
    IF i > Len(table) THEN <<>>
    ELSE (IF \E j \in 1..(i - 1) : table[j] = table[i]
          THEN <<>> ELSE << table[i] >>)
             \o DropEqualRowsFrom(table, i + 1)

drop_duplicates_all_columns(table) == DropEqualRowsFrom(table, 1)

\* drop_duplicates with keep="last"
RECURSIVE DropKeepLastFrom(_, _)
DropKeepLastFrom(table, i) ==
    IF i > Len(table) THEN <<>>
    ELSE (IF \E j \in (i + 1)..Len(table) : KeyOf(table[j]) = KeyOf(table[i])
          THEN <<>> ELSE << table[i] >>)
             \o DropKeepLastFrom(table, i + 1)

drop_duplicates_keep_last(table) == DropKeepLastFrom(table, 1)

drop_duplicates(table) == DropFrom(table, 1)

dedup_bucket_file(table) == drop_duplicates(sort_values(table))

\* the schema of the table dedup_bucket_file writes: table.to_pandas() turns
\* an int64 column that holds a null into float64 (NaN), drop_duplicates
\* keeps the dtype and pa.Table.from_pandas gives a double column; nothing
\* casts it back.  Names and order are kept (preserve_index=False).
from_pandas_schema(schema, table) ==
    [ i \in 1..Len(schema) |->
        << schema[i][1],
           IF /\ schema[i][2] = "int64"
              /\ \E j \in 1..Len(table) : table[j][schema[i][1]] = Null
           THEN "double" ELSE schema[i][2] >> ]

(* ---------------- concat_parts_to_one ---------------- *)
RECURSIVE ConcatParts(_, _, _)
ConcatParts(dir, parts, k) ==
    IF k = 0 THEN <<>>
    ELSE ConcatParts(dir, parts, k - 1) \o dir[parts[k]]

concat_parts_to_one(dir, parts) == ConcatParts(dir, parts, Len(parts))

\* a total that counts the parts written, not their rows
CountParts(dir, parts, k) == k

\* total += t.num_rows over the first k parts
RECURSIVE SumLen(_, _, _)
SumLen(dir, parts, k) ==
    IF k = 0 THEN 0 ELSE SumLen(dir, parts, k - 1) + Len(dir[parts[k]])

(* ---------------- directories ---------------- *)
EmptyDir == [ b \in {} |-> <<>> ]

\* a write that leaves no other file in the directory
WriteFileAlone(dir, b, table) == [ c \in {b} |-> table ]

WriteFile(dir, b, table) ==
    [ c \in DOMAIN dir \cup {b} |-> IF c = b THEN table ELSE dir[c] ]

Restrict(dir, S) == [ b \in S |-> dir[b] ]

NoFile == [ exists |-> FALSE, rows |-> <<>> ]
FileOf(table) == [ exists |-> TRUE, rows |-> table ]

(* ---------------- append_to_bucket and the Router loop ---------------- *)
\* the table in bucket file b after append_to_bucket: the first call for a
\* bucket opens a ParquetWriter, which creates or truncates the file; later
\* calls write through the writer that is already open
\* a call that opens a new ParquetWriter every time, which truncates the file
append_to_bucket_reopening(dir, wr, b, sub) == sub

\* a writer that puts each later chunk in front of what the file holds
append_to_bucket_in_front(dir, wr, b, sub) ==
    IF b \in DOMAIN wr THEN sub \o dir[b] ELSE sub

append_to_bucket(dir, wr, b, sub) ==
    IF b \in DOMAIN wr THEN dir[b] \o sub ELSE sub

\* buckets b of range(N_BUCKETS) for which pc.any(mask) is True
Touched(ids, n) == { b \in 0..(n - 1) : AnyTrue(EqualMask(ids, b)) }

\* lines 195-207 on one row group: the bucket directory afterwards
RouteDir(dir, wr, table, n, kind) ==
    LET ids == bucket_id_from_station_id(StationColumn(table), n, kind)
        hit == Touched(ids, n)
    IN  [ b \in DOMAIN dir \cup hit |->
            IF b \in hit
            THEN append_to_bucket(dir, wr, b, Filter(table, EqualMask(ids, b)))
            ELSE dir[b] ]

\* lines 195-207 on one row group: the writers dict afterwards (TRUE: open)
RouteWriters(wr, table, n, kind) ==
    LET ids == bucket_id_from_station_id(StationColumn(table), n, kind)
        hit == Touched(ids, n)
    IN  [ b \in DOMAIN wr \cup hit |-> TRUE ]

\* close_writers: w.close() is called on every writer; a writer whose close
\* raised (the exception is swallowed, lines 121-124) has not been closed
close_writers(wr, raised) == [ b \in DOMAIN wr |-> b \in raised ]

NoWriters == [ b \in {} |-> FALSE ]

\* the bucket files a complete Router pass over `groups` leaves in an empty
\* directory
RECURSIVE RouteAllFrom(_, _, _, _, _, _)
RouteAllFrom(dir, wr, groups, i, n, kind) ==
    IF i > Len(groups) THEN dir
    ELSE RouteAllFrom(RouteDir(dir, wr, groups[i], n, kind),
                      RouteWriters(wr, groups[i], n, kind),
                      groups, i + 1, n, kind)

LeftBy(groups, n, kind) == RouteAllFrom(EmptyDir, NoWriters, groups, 1, n, kind)

\* what an earlier run on another input may have left in BUCKET_DIR
OldInputs == { f \in Inputs : Len(Flatten(f)) <= MaxStaleRows }

(* ============ dedup_gold_by_parts.py: normalizer and per-part run ============ *)
(* An arrow table of this script is a record of parallel sequences: names,  *)
(* types and arrays (one sequence of cells per column), with num_rows and   *)
(* a flag for schema metadata.  A cell of a string column is the code of    *)
(* its text: n >= 0 is the decimal text of n, a negative code is text that   *)
(* is not a number.                                                          *)

\* TARGET_FIELDS: the key columns and one int64 column (obs_count)
TARGET_FIELDS ==
    << << "station_id", "int64" >>, << "time_hour", "timestamp" >>,
       << "val", "int64" >> >>

TARGET_COLUMNS == [ k \in 1..Len(TARGET_FIELDS) |-> TARGET_FIELDS[k][1] ]

TARGET_TYPES == [ k \in 1..Len(TARGET_FIELDS) |-> TARGET_FIELDS[k][2] ]

DEDUP_KEYS == << "station_id", "time_hour" >>

ArrowTable(names, types, arrays, n, meta) ==
    [ names |-> names, types |-> types, arrays |-> arrays, num_rows |-> n,
      metadata |-> meta ]

NameSet(t) == { t.names[k] : k \in 1..Len(t.names) }

ColumnOf(t, name) == CHOOSE k \in 1..Len(t.names) : t.names[k] = name

\* the column lists a gold_*.parquet part may have: the target's; one with a
\* string val, a column that is not in the target, no time_hour and another
\* order; one without val in another order
PartSchemas ==
    { [ names |-> << "station_id", "time_hour", "val" >>,
        types |-> << "int64", "timestamp", "int64" >> ],
      [ names |-> << "val", "extra", "station_id" >>,
        types |-> << "string", "int64", "int64" >> ],
      [ names |-> << "time_hour", "station_id" >>,
        types |-> << "timestamp", "int64" >> ] }

\* the cells a column of a part may hold
CellsOf(name, type) ==
    IF name = "station_id" THEN { Some(11) }
    ELSE IF name = "time_hour" THEN { Some(1), Some(2) }
    ELSE IF name = "extra" THEN { Some(0) }
    ELSE IF type = "string" THEN { Some(7), Some(-1) }
    ELSE { Some(1), Null }

RECURSIVE ArraysOf(_, _, _)
ArraysOf(sc, n, k) ==
    IF k = 0 THEN { <<>> }
    ELSE { Append(front, col) :
               front \in ArraysOf(sc, n, k - 1),
               col \in [ 1..n -> CellsOf(sc.names[k], sc.types[k]) ] }

\* the gold_*.parquet files: written from pandas, so with schema metadata
PartFiles ==
    UNION { { ArrowTable(sc.names, sc.types, arrays, n, TRUE) :
                  arrays \in ArraysOf(sc, n, Len(sc.names)) } :
            sc \in PartSchemas, n \in 0..MaxPartRows }

\* read_table_only_target_cols: the target columns the file has, in the
\* target's order, with the file's types and schema metadata
read_table_only_target_cols(file) ==
    LET cols_to_read == SelectSeq(TARGET_COLUMNS, LAMBDA c : c \in NameSet(file))
    IN  ArrowTable(cols_to_read,
                   [ k \in 1..Len(cols_to_read) |-> file.types[ColumnOf(file, cols_to_read[k])] ],
                   [ k \in 1..Len(cols_to_read) |-> file.arrays[ColumnOf(file, cols_to_read[k])] ],
                   file.num_rows, file.metadata)

\* a column of zeros in place of a column of nulls
pa_zeros(n, type) == [ r \in 1..n |-> Some(0) ]

\* pa.nulls(table.num_rows, type=field.type)
pa_nulls(n, type) == [ r \in 1..n |-> Null ]

\* a cast that turns a value it cannot convert into null
CastCellCoerce(from, to, c) ==
    IF from = "string" /\ to = "int64" /\ c /= Null /\ ValueOf(c) < 0
    THEN [ raised |-> FALSE, cell |-> Null ]
    ELSE [ raised |-> FALSE, cell |-> c ]

\* the cast kernel on one cell: null stays null; a string is parsed as a
\* decimal number and text that is not a number raises ArrowInvalid (also
\* with safe=False); the numeric casts of the model keep the value
CastCell(from, to, c) ==
    IF from = "string" /\ to = "int64" /\ c /= Null /\ ValueOf(c) < 0
    THEN [ raised |-> TRUE, cell |-> c ]
    ELSE [ raised |-> FALSE, cell |-> c ]

\* aligned.cast(TARGET_SCHEMA, safe=False).replace_schema_metadata(None)
CastTable(aligned) ==
    LET cast == [ k \in 1..Len(aligned.names) |->
                    [ r \in 1..Len(aligned.arrays[k]) |->
                        CastCell(aligned.types[k], TARGET_TYPES[k], aligned.arrays[k][r]) ] ]
    IN  [ raised |-> \E k \in 1..Len(cast) : \E r \in 1..Len(cast[k]) : cast[k][r].raised,
          table |-> ArrowTable(TARGET_COLUMNS, TARGET_TYPES,
                        [ k \in 1..Len(cast) |-> [ r \in 1..Len(cast[k]) |-> cast[k][r].cell ] ],
                        aligned.num_rows, FALSE) ]

\* a normalizer that casts the columns the table has and adds none
cast_existing_columns(table) ==
    [ raised |-> FALSE,
      table |-> ArrowTable(table.names, table.types, table.arrays, table.num_rows, FALSE) ]

\* ensure_all_columns_and_cast: [raised |-> the cast raised, table |-> result]
ensure_all_columns_and_cast(table) ==
    LET existing == NameSet(table)
        present(k) == TARGET_COLUMNS[k] \in existing
        arrays == [ k \in 1..Len(TARGET_FIELDS) |->
                      IF present(k) THEN table.arrays[ColumnOf(table, TARGET_COLUMNS[k])]
                      ELSE pa_nulls(table.num_rows, TARGET_TYPES[k]) ]
        types == [ k \in 1..Len(TARGET_FIELDS) |->
                     IF present(k) THEN table.types[ColumnOf(table, TARGET_COLUMNS[k])]
                     ELSE TARGET_TYPES[k] ]
    IN  CastTable(ArrowTable(TARGET_COLUMNS, types, arrays, table.num_rows, FALSE))

\* the cells of row r in the columns `keys`
KeyCells(t, keys, r) == [ k \in 1..Len(keys) |-> t.arrays[ColumnOf(t, keys[k])][r] ]

\* the row numbers a drop_duplicates with keep="last" keeps
RECURSIVE KeptRowsLast(_, _, _)
KeptRowsLast(t, keys, r) ==
    IF r > t.num_rows THEN <<>>
    ELSE (IF \E q \in (r + 1)..t.num_rows : KeyCells(t, keys, q) = KeyCells(t, keys, r)
          THEN <<>> ELSE << r >>)
             \o KeptRowsLast(t, keys, r + 1)

\* the row numbers df.drop_duplicates(subset=keys, keep="first") keeps
RECURSIVE KeptRows(_, _, _)
KeptRows(t, keys, r) ==
    IF r > t.num_rows THEN <<>>
    ELSE (IF \E q \in 1..(r - 1) : KeyCells(t, keys, q) = KeyCells(t, keys, r)
          THEN <<>> ELSE << r >>)
             \o KeptRows(t, keys, r + 1)

\* dedup_table_with_pandas_keep_first: to_pandas, drop_duplicates without a
\* sort, from_pandas (an int64 column that holds a null comes back as double,
\* with pandas metadata), then ensure_all_columns_and_cast
dedup_table_with_pandas_keep_first(table, keys) ==
    LET kept == KeptRows(table, keys, 1)
        out == ArrowTable(table.names,
                   [ k \in 1..Len(table.names) |->
                       IF /\ table.types[k] = "int64"
                          /\ \E r \in 1..table.num_rows : table.arrays[k][r] = Null
                       THEN "double" ELSE table.types[k] ],
                   [ k \in 1..Len(table.names) |->
                       [ r \in 1..Len(kept) |-> table.arrays[k][kept[r]] ] ],
                   Len(kept), TRUE)
    IN  ensure_all_columns_and_cast(out).table

NoTable == ArrowTable(<<>>, <<>>, <<>>, 0, FALSE)

NoParquet == [ exists |-> FALSE, table |-> NoTable ]

\* concat_parquets_to_one over the first k paths: each part is read,
\* normalized and written to the one ParquetWriter opened with TARGET_SCHEMA
RECURSIVE ConcatArrays(_, _, _)
ConcatArrays(dir, paths, k) ==
    IF k = 0 THEN [ c \in 1..Len(TARGET_FIELDS) |-> <<>> ]
    ELSE LET t == ensure_all_columns_and_cast(
                      read_table_only_target_cols(dir[paths[k]])).table
             front == ConcatArrays(dir, paths, k - 1)
         IN  [ c \in 1..Len(TARGET_FIELDS) |-> front[c] \o t.arrays[c] ]

concat_parquets_to_one(dir, paths) ==
    LET arrays == ConcatArrays(dir, paths, Len(paths))
    IN  ArrowTable(TARGET_COLUMNS, TARGET_TYPES, arrays, Len(arrays[1]), FALSE)

VARIABLES
    goldParts,   \* PARTS_DIR: the sorted gold_*.parquet files
    dedupDir,    \* DEDUP_DIR: part number -> the deduplicated part
    outGold,     \* OUT_GOLD
    ppc,         \* position of main() of dedup_gold_by_parts.py
    partNo,      \* next part of the loop of line 240 (1-based)
    partTable    \* `table` after line 244 for the latest part

pvars == << goldParts, dedupDir, outGold, ppc, partNo, partTable >>

\* the per-part script has not been run
IdleParts ==
    /\ goldParts = <<>>
    /\ dedupDir = EmptyDir
    /\ outGold = NoParquet
    /\ ppc = "idle"
    /\ partNo = 1
    /\ partTable = NoTable

(* ---------------- state ---------------- *)
VARIABLES
    input,        \* IN_FILE: its row groups
    in_schema,    \* IN_FILE: its arrow schema (get_target_schema, line 177)
    N_BUCKETS,    \* the configured bucket count
    modKind,      \* sign convention of pc.mod
    bucketFiles,  \* BUCKET_DIR/bucket_XX.parquet
    dedupFiles,   \* BUCKET_DIR/dedup_bucket_XX.parquet: the rows
    dedupSchemas, \* BUCKET_DIR/dedup_bucket_XX.parquet: the schema
    outFile,      \* OUT_FILE
    writers,      \* main's writers dict: bucket -> writer is open
    close_errors, \* buckets whose w.close() raised in close_writers
    pc,           \* position of main()
    rg,           \* next row group of the loop of line 190 (1-based)
    groups_read,  \* calls of pf.read_row_group in this run
    b_ids,        \* bucket ids computed for the last row group read
    bucket_files, \* sorted glob of line 215
    dedup_parts,  \* parts appended by the loop of lines 224-230
    total_in,     \* line 228
    total_out,    \* line 229
    final_rows,   \* line 234
    prevOut       \* the output table of the latest earlier complete run

bvars == << input, in_schema, N_BUCKETS, modKind, bucketFiles, dedupFiles,
            dedupSchemas, outFile, writers, close_errors, pc, rg, groups_read,
            b_ids, bucket_files, dedup_parts, total_in, total_out, final_rows,
            prevOut >>

config == << input, in_schema, N_BUCKETS, modKind >>

InitBuckets ==
    /\ \/ /\ in_schema = FullSchema
          /\ input \in Inputs
       \/ /\ in_schema = KeylessSchema
          /\ input \in KeylessInputs
    /\ N_BUCKETS \in NChoices
    /\ modKind \in { "floored", "truncated" }
    /\ \E old \in OldInputs : bucketFiles = LeftBy(old, N_BUCKETS, modKind)
    /\ dedupFiles = EmptyDir
    /\ dedupSchemas = EmptyDir
    /\ outFile = NoFile
    /\ writers = NoWriters
    /\ close_errors = {}
    /\ pc = "idle"
    /\ rg = 1
    /\ groups_read = 0
    /\ b_ids = <<>>
    /\ bucket_files = <<>>
    /\ dedup_parts = <<>>
    /\ total_in = 0
    /\ total_out = 0
    /\ final_rows = 0
    /\ prevOut = {}

(* ---------------- main ---------------- *)
\* lines 171-188: IN_FILE exists; ensure_dirs; clean_bucket_dir deletes the
\* bucket_*.parquet files, except those whose unlink raises (lines 90-93);
\* dedup_bucket_*.parquet and OUT_FILE are not touched
clean_bucket_dir(dir, kept) == Restrict(dir, kept)

Start ==
    /\ pc \in { "idle", "done", "failed" }
    /\ \E kept \in SUBSET DOMAIN bucketFiles :
           bucketFiles' = clean_bucket_dir(bucketFiles, kept)
    /\ writers' = NoWriters
    /\ close_errors' = {}
    /\ rg' = 1
    /\ groups_read' = 0
    /\ b_ids' = <<>>
    /\ bucket_files' = <<>>
    /\ dedup_parts' = <<>>
    /\ total_in' = 0
    /\ total_out' = 0
    /\ final_rows' = 0
    /\ prevOut' = IF pc = "done" THEN { outFile.rows } ELSE prevOut
    /\ pc' = "route"
    /\ input' = UnlinkedAt({ bucket_path(b) : b \in DOMAIN bucketFiles \ DOMAIN bucketFiles' },
                           input)
    /\ UNCHANGED << pvars, in_schema, N_BUCKETS, modKind, dedupFiles, dedupSchemas,
                    outFile >>

\* lines 190-209, one iteration of the row-group loop
RouteRowGroup ==
    /\ pc = "route"
    /\ rg <= Len(input)
    /\ "station_id" \in ColumnNames(in_schema)
    /\ b_ids' = bucket_id_from_station_id(StationColumn(input[rg]), N_BUCKETS, modKind)
    /\ bucketFiles' = RouteDir(bucketFiles, writers, input[rg], N_BUCKETS, modKind)
    /\ writers' = RouteWriters(writers, input[rg], N_BUCKETS, modKind)
    /\ rg' = rg + 1
    /\ groups_read' = groups_read + 1
    /\ input' = IF \E b \in Touched(b_ids', N_BUCKETS) : bucket_path(b) = IN_FILE
                THEN << bucketFiles'[CHOOSE b \in Touched(b_ids', N_BUCKETS) :
                                         bucket_path(b) = IN_FILE] >>
                ELSE input
    /\ UNCHANGED << pvars, in_schema, N_BUCKETS, modKind, dedupFiles, dedupSchemas,
                    outFile, close_errors, pc, bucket_files, dedup_parts, total_in,
                    total_out, final_rows, prevOut >>

\* lines 191-195 on a file without station_id: the row group is read, then
\* table["station_id"] raises KeyError; the finally closes the writers
RouteKeyError ==
    /\ pc = "route"
    /\ rg <= Len(input)
    /\ "station_id" \notin ColumnNames(in_schema)
    /\ groups_read' = groups_read + 1
    /\ writers' = close_writers(writers, {})
    /\ pc' = "failed"
    /\ UNCHANGED << pvars, config, bucketFiles, dedupFiles, dedupSchemas, outFile,
                    close_errors, rg, b_ids, bucket_files, dedup_parts, total_in,
                    total_out, final_rows, prevOut >>

\* an exception inside the try of lines 189-209 (a read or write error):
\* the finally closes the writers and main ends with the exception
RouterFail ==
    /\ pc = "route"
    /\ rg <= Len(input)
    /\ writers' = close_writers(writers, {})
    /\ pc' = "failed"
    /\ UNCHANGED << pvars, config, bucketFiles, dedupFiles, dedupSchemas, outFile,
                    close_errors, rg, groups_read, b_ids, bucket_files,
                    dedup_parts, total_in, total_out, final_rows, prevOut >>

\* the buckets whose w.close() may raise in one call of close_writers: the
\* exception is swallowed (lines 121-124); at most one close fails per run
CloseFailures(wr) == { S \in SUBSET DOMAIN wr : Cardinality(S) <= 1 }

\* lines 211-221: the loop is over, the finally closes the writers, the bucket
\* files are globbed and sorted; RuntimeError when there is none
EndRouter ==
    /\ pc = "route"
    /\ rg > Len(input)
    /\ close_errors' \in CloseFailures(writers)
    /\ writers' = close_writers(writers, close_errors')
    /\ bucket_files' = SortedGlob(bucketFiles)
    /\ pc' = IF SortedGlob(bucketFiles) = <<>> THEN "failed" ELSE "dedup"
    /\ UNCHANGED << pvars, config, bucketFiles, dedupFiles, dedupSchemas, outFile, rg,
                    groups_read, b_ids, dedup_parts, total_in, total_out,
                    final_rows, prevOut >>

\* lines 224-230, one iteration: dedup_bucket_file(bfile, dedup_<bfile.name>);
\* every bucket file has the key columns (no bucket file is written from an
\* IN_FILE without station_id)
DedupBucket ==
    /\ pc = "dedup"
    /\ Len(dedup_parts) < Len(bucket_files)
    /\ LET bfile == bucket_files[Len(dedup_parts) + 1]
           out_table == dedup_bucket_file(bucketFiles[bfile])
       IN  /\ dedupFiles' = WriteFile(dedupFiles, bfile, out_table)
           /\ dedupSchemas' = WriteFile(dedupSchemas, bfile,
                                  from_pandas_schema(FullSchema, bucketFiles[bfile]))
           /\ total_in' = total_in + Len(bucketFiles[bfile])
           /\ total_out' = total_out + Len(out_table)
           /\ dedup_parts' = Append(dedup_parts, bfile)
           /\ input' = WrittenAt(dedup_path(bfile), out_table, input)
    /\ UNCHANGED << pvars, in_schema, N_BUCKETS, modKind, bucketFiles, outFile, writers,
                    close_errors, pc, rg, groups_read, b_ids, bucket_files,
                    final_rows, prevOut >>

\* dedup_bucket_file raises (a bucket file that cannot be read, out of
\* memory, write error)
DedupFail ==
    /\ pc = "dedup"
    /\ Len(dedup_parts) < Len(bucket_files)
    /\ pc' = "failed"
    /\ UNCHANGED << pvars, config, bucketFiles, dedupFiles, dedupSchemas, outFile,
                    writers, close_errors, rg, groups_read, b_ids, bucket_files,
                    dedup_parts, total_in, total_out, final_rows, prevOut >>

\* writer.write_table(t) of line 161 accepts t: ParquetWriter raises
\* ValueError unless the table's schema equals the schema it was opened with
SchemaAccepted(k) == dedupSchemas[dedup_parts[k]] = in_schema

\* line 234 and lines 152-163: all parts are written to OUT_FILE
Concat ==
    /\ pc = "dedup"
    /\ Len(dedup_parts) = Len(bucket_files)
    /\ \A k \in 1..Len(dedup_parts) : SchemaAccepted(k)
    /\ outFile' = FileOf(concat_parts_to_one(dedupFiles, dedup_parts))
    /\ final_rows' = SumLen(dedupFiles, dedup_parts, Len(dedup_parts))
    /\ pc' = "done"
    /\ input' = WrittenAt(OUT_FILE, outFile'.rows, input)
    /\ UNCHANGED << pvars, in_schema, N_BUCKETS, modKind, bucketFiles, dedupFiles,
                    dedupSchemas, writers, close_errors, rg, groups_read, b_ids,
                    bucket_files,
                    dedup_parts, total_in, total_out, prevOut >>

\* concat_parts_to_one raises after k parts were written (a read or write
\* error, or the schema of part k + 1 is not accepted): the ParquetWriter of
\* line 157 has created (truncated) OUT_FILE and its context manager closes it
ConcatFail ==
    /\ pc = "dedup"
    /\ Len(dedup_parts) = Len(bucket_files)
    /\ \E k \in 0..(Len(dedup_parts) - 1) :
           /\ \A j \in 1..k : SchemaAccepted(j)
           /\ outFile' = FileOf(ConcatParts(dedupFiles, dedup_parts, k))
    /\ pc' = "failed"
    /\ input' = WrittenAt(OUT_FILE, outFile'.rows, input)
    /\ UNCHANGED << pvars, in_schema, N_BUCKETS, modKind, bucketFiles, dedupFiles,
                    dedupSchemas, writers, close_errors, rg, groups_read, b_ids,
                    bucket_files,
                    dedup_parts, total_in, total_out, final_rows, prevOut >>

vars == << bvars, pvars >>

Init == InitBuckets /\ IdleParts

Next ==
    \/ Start
    \/ RouteRowGroup
    \/ RouteKeyError
    \/ RouterFail
    \/ EndRouter
    \/ DedupBucket
    \/ DedupFail
    \/ Concat
    \/ ConcatFail

Spec == Init /\ [][Next]_vars

(* ---------------- main of dedup_gold_by_parts.py ---------------- *)
\* the bucketed script has not been run
IdleBuckets ==
    /\ input = <<>>
    /\ in_schema = FullSchema
    /\ N_BUCKETS = 1
    /\ modKind = "floored"
    /\ bucketFiles = EmptyDir
    /\ dedupFiles = EmptyDir
    /\ dedupSchemas = EmptyDir
    /\ outFile = NoFile
    /\ writers = NoWriters
    /\ close_errors = {}
    /\ pc = "idle"
    /\ rg = 1
    /\ groups_read = 0
    /\ b_ids = <<>>
    /\ bucket_files = <<>>
    /\ dedup_parts = <<>>
    /\ total_in = 0
    /\ total_out = 0
    /\ final_rows = 0
    /\ prevOut = {}

InitParts ==
    /\ IdleBuckets
    /\ goldParts \in SeqsUpTo(PartFiles, MaxParts)
    /\ dedupDir = EmptyDir
    /\ outGold = NoParquet
    /\ ppc = "idle"
    /\ partNo = 1
    /\ partTable = NoTable

\* lines 231-237: list_gold_parts raises RuntimeError when there is no part
list_gold_parts ==
    /\ ppc = "idle"
    /\ ppc' = IF goldParts = <<>> THEN "failed" ELSE "loop"
    /\ UNCHANGED << bvars, goldParts, dedupDir, outGold, partNo, partTable >>

\* `table` of line 243
ReadPart == read_table_only_target_cols(goldParts[partNo])

\* lines 240-254, one iteration of the loop over the parts
DedupPart ==
    /\ ppc = "loop"
    /\ partNo <= Len(goldParts)
    /\ ~ensure_all_columns_and_cast(ReadPart).raised
    /\ partTable' = ensure_all_columns_and_cast(ReadPart).table
    /\ dedupDir' = WriteFile(dedupDir, partNo,
                       dedup_table_with_pandas_keep_first(partTable', DEDUP_KEYS))
    /\ partNo' = partNo + 1
    /\ UNCHANGED << bvars, goldParts, outGold, ppc >>

\* line 244 raises: main has no handler, the run ends with the exception
DedupPartRaises ==
    /\ ppc = "loop"
    /\ partNo <= Len(goldParts)
    /\ ensure_all_columns_and_cast(ReadPart).raised
    /\ ppc' = "failed"
    /\ UNCHANGED << bvars, goldParts, dedupDir, outGold, partNo, partTable >>

\* lines 256-258: concat_parquets_to_one(dedup_parts, OUT_GOLD)
ConcatParquets ==
    /\ ppc = "loop"
    /\ partNo > Len(goldParts)
    /\ outGold' = [ exists |-> TRUE,
                    table |-> concat_parquets_to_one(dedupDir,
                                  [ k \in 1..Len(goldParts) |-> k ]) ]
    /\ ppc' = "done"
    /\ UNCHANGED << bvars, goldParts, dedupDir, partNo, partTable >>

NextParts ==
    \/ list_gold_parts
    \/ DedupPart
    \/ DedupPartRaises
    \/ ConcatParquets

SpecParts == InitParts /\ [][NextParts]_vars

(* ======================= properties ======================= *)
InputRows == Flatten(input)
OutRows == outFile.rows

\* the rows of the row groups the Router has read so far in this run
Routed == Flatten(SubSeq(input, 1, rg - 1))

RangeOf(table) == { table[i] : i \in 1..Len(table) }

\* the earliest row of `table` with key k
FirstWith(table, k) ==
    table[CHOOSE i \in 1..Len(table) :
              /\ KeyOf(table[i]) = k
              /\ \A j \in 1..(i - 1) : KeyOf(table[j]) /= k]

NoDuplicateKey(table) ==
    \A i, j \in 1..Len(table) : KeyOf(table[i]) = KeyOf(table[j]) => i = j

C2_Conservation ==
    pc = "done" =>
        /\ KeysOf(OutRows) = KeysOf(InputRows)
        /\ Len(OutRows) = Cardinality(KeysOf(InputRows))
        /\ Len(OutRows) <= Len(InputRows)

Processed == { dedup_parts[i] : i \in 1..Len(dedup_parts) }

\* C4 as stated: the row kept for a key does not depend on how the sort orders
\* rows of equal key (the other stable-less order gives the same shard)
C4_TieIndependent ==
    \A b \in Processed :
        dedupFiles[b] = drop_duplicates(sort_values_ties_reversed(bucketFiles[b]))

\* C4 amended: the shard is sorted by (station_id, time_hour) alone with a
\* stable sort, so the row kept for a key is the first row of that key in the
\* shard file
C4_StableFirst ==
    \A b \in Processed :
        /\ KeysOf(dedupFiles[b]) = KeysOf(bucketFiles[b])
        /\ NoDuplicateKey(dedupFiles[b])
        /\ \A r \in RangeOf(dedupFiles[b]) : r = FirstWith(bucketFiles[b], KeyOf(r))

\* a deduplicated shard whose shard file holds one key twice with different
\* non-key values
C4_Witness ==
    \E b \in Processed :
        \E i, j \in 1..Len(bucketFiles[b]) :
            /\ i < j
            /\ KeyOf(bucketFiles[b][i]) = KeyOf(bucketFiles[b][j])
            /\ bucketFiles[b][i].val /= bucketFiles[b][j].val

\* C5: a complete run yields the output table of the earlier complete run on
\* the same input and configuration
C5_Determinism ==
    (pc = "done" /\ prevOut /= {}) => OutRows \in prevOut

\* C6: a row is written only to the shard of its station_id's bucket id, and
\* routed rows with the same key are in the same shard files
C6_BucketCorrect ==
    /\ \A b \in DOMAIN writers :
           \A r \in RangeOf(bucketFiles[b]) :
               ModCell(r.station_id, N_BUCKETS, modKind) = { b }
    /\ \A r1, r2 \in RangeOf(Routed) :
           KeyOf(r1) = KeyOf(r2) =>
               \A b \in DOMAIN writers :
                   r1 \in RangeOf(bucketFiles[b]) <=> r2 \in RangeOf(bucketFiles[b])

\* two rows of one key read from different row groups, both in one shard of
\* a run with several buckets
C6_Witness ==
    /\ pc = "dedup"
    /\ N_BUCKETS > 1
    /\ Len(input) = 2
    /\ \E r1 \in RangeOf(input[1]), r2 \in RangeOf(input[2]) :
           /\ KeyOf(r1) = KeyOf(r2)
           /\ r1 /= r2
           /\ \E b \in DOMAIN writers :
                  { r1, r2 } \subseteq RangeOf(bucketFiles[b])

\* C7: every bucket id computed for a row group is an integer of [0, N)
C7_BucketInRange ==
    \A i \in 1..Len(b_ids) :
        /\ b_ids[i] /= Null
        /\ b_ids[i] \subseteq 0..(N_BUCKETS - 1)

\* C8: a failed run leaves no file at the output path
C8_NoOutputOnFailure ==
    pc = "failed" => ~outFile.exists

\* C9: after the Router pass the shard file of bucket b exists exactly when a
\* row of this run was routed to b, and a writer was opened exactly then
C9_LazyShards ==
    pc = "dedup" =>
        \A b \in (0..(N_BUCKETS - 1)) \cup DOMAIN bucketFiles :
            LET got == \E r \in RangeOf(InputRows) :
                           ModCell(r.station_id, N_BUCKETS, modKind) = { b }
            IN  /\ (b \in DOMAIN bucketFiles) <=> got
                /\ (b \in DOMAIN writers) <=> got

\* C10: the output is the deduplicated shards in ascending numeric bucket
\* order, and its row count is the sum of their row counts
C10_AscendingConcat ==
    pc = "done" =>
        /\ \A i, j \in 1..Len(dedup_parts) : i < j => dedup_parts[i] < dedup_parts[j]
        /\ OutRows = concat_parts_to_one(dedupFiles, dedup_parts)
        /\ Len(OutRows) = SumLen(dedupFiles, dedup_parts, Len(dedup_parts))

\* the part file whose normalized table is partTable
LatestPart == goldParts[partNo - 1]

\* C11: the normalized table has the target's column names in the target's
\* order, so none of the input's other columns, and no schema metadata
C11_TargetColumns ==
    partNo > 1 =>
        /\ partTable.names = TARGET_COLUMNS
        /\ Len(partTable.arrays) = Len(TARGET_COLUMNS)
        /\ ~partTable.metadata

\* a part with a column that is not in the target, its target columns in
\* another order and schema metadata has been normalized
C11_Witness ==
    /\ partNo > 1
    /\ "extra" \in NameSet(LatestPart)
    /\ ColumnOf(LatestPart, "val") < ColumnOf(LatestPart, "station_id")
    /\ LatestPart.metadata

\* C12: a target field the input lacks is a column of nulls as long as the
\* input; the row count is the input's and every column the input has keeps
\* its cells in the input's row order
C12_NullColumns ==
    partNo > 1 =>
        /\ partTable.num_rows = LatestPart.num_rows
        /\ \A k \in 1..Len(TARGET_COLUMNS) :
               /\ Len(partTable.arrays[k]) = LatestPart.num_rows
               /\ \A r \in 1..LatestPart.num_rows :
                      partTable.arrays[k][r] =
                          IF TARGET_COLUMNS[k] \in NameSet(LatestPart)
                          THEN LatestPart.arrays[ColumnOf(LatestPart, TARGET_COLUMNS[k])][r]
                          ELSE Null

\* a part of two different rows that lacks a target field has been normalized
C12_Witness ==
    /\ partNo > 1
    /\ LatestPart.num_rows = 2
    /\ \E k \in 1..Len(TARGET_COLUMNS) : TARGET_COLUMNS[k] \notin NameSet(LatestPart)
    /\ \E k \in 1..Len(LatestPart.arrays) :
           LatestPart.arrays[k][1] /= LatestPart.arrays[k][2]

\* the part holds text that is not a number in a column whose target type is
\* a number
Uncoercible(file) ==
    \E k \in 1..Len(file.names) :
        /\ file.names[k] \in { TARGET_COLUMNS[c] : c \in 1..Len(TARGET_COLUMNS) }
        /\ file.types[k] = "string"
        /\ \E r \in 1..file.num_rows :
               file.arrays[k][r] /= Null /\ ValueOf(file.arrays[k][r]) < 0

\* C15: a part with a value that cannot be cast is never deduplicated or
\* written, no later part is processed and the run never completes or
\* writes the merged output
C15_CastErrorAborts ==
    \A n \in 1..Len(goldParts) :
        Uncoercible(goldParts[n]) =>
            /\ partNo <= n
            /\ n \notin DOMAIN dedupDir
            /\ ppc /= "done"
            /\ ~outGold.exists

\* the run has failed on its first part, which holds a value that cannot be
\* cast, with a second part of rows left that could be
C15_Witness ==
    /\ ppc = "failed"
    /\ Len(goldParts) = 2
    /\ partNo = 1
    /\ Uncoercible(goldParts[1])
    /\ ~Uncoercible(goldParts[2])
    /\ goldParts[2].num_rows > 0

\* C13: every deduplicated shard written from a shard file of this run has
\* the Target Schema's column list, names and types in order
C13_SchemaConformance ==
    \A b \in Processed \cap DOMAIN writers : dedupSchemas[b] = in_schema

KeysAbsent == \E i \in 1..Len(KEYS) : KEYS[i] \notin ColumnNames(in_schema)

\* C14: on an IN_FILE without the key columns every step of main ends the
\* run as failed with no shard file deleted or created, no writer opened and
\* no row group read
C14_FailsBeforeRouter ==
    [][ KeysAbsent =>
            /\ pc' = "failed"
            /\ bucketFiles' = bucketFiles
            /\ writers' = NoWriters
            /\ groups_read' = 0 ]_vars

\* C16: a run in which closing a shard file raised does not end as complete,
\* and the step that fails a run changes no shard file
C16_ShardFailureFails ==
    [][ /\ pc' = "done" => close_errors' = {}
        /\ (pc /= "failed" /\ pc' = "failed") =>
               (bucketFiles' = bucketFiles /\ dedupFiles' = dedupFiles) ]_vars

\* lines 236-243: what main reports after concat_parts_to_one has returned
Printed ==
    [ rows_in_total |-> total_in, rows_out_total |-> total_out,
      rows_final |-> final_rows, removed_total |-> total_in - total_out ]

RunOutput(groups, n, kind) ==
    LET dir == LeftBy(groups, n, kind)
        dedup == [ b \in DOMAIN dir |-> dedup_bucket_file(dir[b]) ]
    IN  concat_parts_to_one(dedup, SortedGlob(dir))

\* C18: the set of rows of the output of a complete run is the set of rows a
\* run with N_BUCKETS = 1 produces from the same input
C18_ShardCountIndependent ==
    pc = "done" => RangeOf(OutRows) = RangeOf(RunOutput(input, 1, modKind))

\* the rows of `table` that belong to bucket b, in the table's order
OfBucket(table, b) ==
    SelectSeq(table, LAMBDA r : ModCell(r.station_id, N_BUCKETS, modKind) = { b })

\* C19: a shard file written by this run holds the rows routed to its bucket
\* in the order in which they appear in the input stream
C19_OrderKept ==
    \A b \in DOMAIN writers : bucketFiles[b] = OfBucket(Routed, b)

\* a shard of a run with several buckets that received different rows from
\* two row groups
C19_Witness ==
    /\ pc = "dedup"
    /\ N_BUCKETS > 1
    /\ Len(input) = 2
    /\ \E b \in DOMAIN writers :
           /\ OfBucket(input[1], b) /= <<>>
           /\ OfBucket(input[2], b) /= <<>>
           /\ RangeOf(OfBucket(input[1], b)) /= RangeOf(OfBucket(input[2], b))

\* number of positions of `table` that hold the row r
Count(table, r) == Cardinality({ i \in 1..Len(table) : table[i] = r })

RECURSIVE CountInFiles(_, _, _)
CountInFiles(dir, S, r) ==
    IF S = {} THEN 0
    ELSE LET b == CHOOSE c \in S : TRUE
         IN  Count(dir[b], r) + CountInFiles(dir, S \ {b}, r)

\* C20: after the Router pass every input row is in the shard files written
\* by this run as many times as it is in the input, null and negative
\* station_id included
C20_RouterPartition ==
    pc = "dedup" =>
        \A r \in Rows :
            CountInFiles(bucketFiles, DOMAIN writers, r) = Count(InputRows, r)

IsPrefix(a, b) == Len(a) <= Len(b) /\ SubSeq(b, 1, Len(a)) = a

\* C21: in a step of the Router pass every writer that is open stays in the
\* writers dict and its file keeps what it held (the file is not truncated by
\* a second writer), and the writers are those of at most N_BUCKETS buckets
\* of range(N_BUCKETS)
C21_OneWriterPerBucket ==
    [][ (pc = "route" /\ pc' = "route") =>
            /\ DOMAIN writers \subseteq DOMAIN writers'
            /\ \A b \in DOMAIN writers : IsPrefix(bucketFiles[b], bucketFiles'[b])
            /\ DOMAIN writers' \subseteq 0..(N_BUCKETS - 1)
            /\ Cardinality({ b \in DOMAIN writers' : writers'[b] }) <= N_BUCKETS ]_vars

\* two row groups have been routed, two writers are open and one of them has
\* written a chunk of each row group
C21_Witness ==
    /\ pc = "route"
    /\ rg = 3
    /\ Cardinality({ b \in DOMAIN writers : writers[b] }) >= 2
    /\ \E b \in DOMAIN writers :
           OfBucket(input[1], b) /= <<>> /\ OfBucket(input[2], b) /= <<>>

\* C22: once the Router pass has ended, normally or by an error, no writer
\* of the writers dict is open: the dedup loop runs with every writer closed
C22_WritersClosed ==
    pc \in { "dedup", "done", "failed" } =>
        \A b \in DOMAIN writers : ~writers[b]

\* the orders in which the jobs of the shards S can be run
JobOrders(S) ==
    { q \in [ 1..Cardinality(S) -> S ] :
          \A i, j \in 1..Cardinality(S) : q[i] = q[j] => i = j }

\* lines 224-227 run for the first k shards of `order`: the deduplicated
\* shard files written
RECURSIVE DedupJobs(_, _, _)
DedupJobs(dir, order, k) ==
    IF k = 0 THEN EmptyDir
    ELSE WriteFile(DedupJobs(dir, order, k - 1), order[k],
                   dedup_bucket_file(dir[order[k]]))

C25_RunsDoNotMix ==
    pc = "done" => OutRows = RunOutput(input, N_BUCKETS, modKind)

\* C27: every row of the output of a complete run is a row of the input
C27_RowsFromInput ==
    pc = "done" => RangeOf(OutRows) \subseteq RangeOf(InputRows)

\* C26: the dedup job of a shard with zero rows yields zero rows, and a run
\* whose Router pass has read the whole input and left no shard file ends as
\* a success with an empty output
C26_EmptyIsSuccess ==
    /\ dedup_bucket_file(<<>>) = <<>>
    /\ (pc \in { "done", "failed" } /\ rg > Len(input) /\ DOMAIN bucketFiles = {})
           => (pc = "done" /\ outFile = FileOf(<<>>))

NormalizedPart(k) ==
    ensure_all_columns_and_cast(read_table_only_target_cols(goldParts[k])).table

\* the rows of t whose key no earlier row of t has
FirstRows(t) ==
    { r \in 1..t.num_rows :
          \A q \in 1..(r - 1) : KeyCells(t, DEDUP_KEYS, q) /= KeyCells(t, DEDUP_KEYS, r) }

\* the number of rows of the deduplicated parts before part k
RowsBefore(k) == SumSeq([ j \in 1..(k - 1) |-> dedupDir[j].num_rows ])

\* C29: after a complete run of the per-part script each deduplicated part
\* has no two rows with the same (station_id, time_hour) and holds, in the
\* part's order, the first row of each key of the normalized part; the
\* merged file is the deduplicated parts one after the other in part order
\* and its row count is the sum of theirs
C29_PerPartKeepFirst ==
    ppc = "done" =>
        /\ \A k \in 1..Len(goldParts) :
               LET t == NormalizedPart(k)
                   d == dedupDir[k]
                   F == FirstRows(t)
               IN  /\ \A i, j \in 1..d.num_rows :
                          KeyCells(d, DEDUP_KEYS, i) = KeyCells(d, DEDUP_KEYS, j) => i = j
                   /\ d.num_rows = Cardinality(F)
                   /\ \A r \in F : \A c \in 1..Len(TARGET_COLUMNS) :
                          /\ d.arrays[c][Cardinality({ q \in F : q <= r })] = t.arrays[c][r]
                          /\ outGold.table.arrays[c][RowsBefore(k)
                                 + Cardinality({ q \in F : q <= r })] = t.arrays[c][r]
        /\ outGold.exists
        /\ outGold.table.num_rows = RowsBefore(Len(goldParts) + 1)
        /\ \A c \in 1..Len(TARGET_COLUMNS) :
               Len(outGold.table.arrays[c]) = outGold.table.num_rows

\* a complete run on two parts: one part has lost a row, and the merged file
\* holds two rows with the same key, from different parts
C29_Witness ==
    /\ ppc = "done"
    /\ Len(goldParts) = 2
    /\ \E k \in 1..2 : dedupDir[k].num_rows < NormalizedPart(k).num_rows
    /\ \E i \in 1..RowsBefore(2) : \E j \in (RowsBefore(2) + 1)..outGold.table.num_rows :
           KeyCells(outGold.table, DEDUP_KEYS, i) = KeyCells(outGold.table, DEDUP_KEYS, j)

====
